---- MODULE Spec2Model ----
(***************************************************************************)
(* A model of src/sqlite_handler.py: the SqliteLogger context manager      *)
(* (handshake with the OPS24x radar module in __enter__) and its listen    *)
(* loop (measurement ingestion with batched commits).                      *)
(*                                                                         *)
(* Strings that the code slices, searches or parses are sequences of       *)
(* one-character strings, so that find, [:-2], split and float are         *)
(* computed as Python computes them.  Command strings, which the code only *)
(* passes on, are TLA+ strings.                                            *)
(***************************************************************************)
EXTENDS Integers, Sequences, FiniteSets, TLC

(***************************************************************************)
(* Bounds of the model.                                                    *)
(***************************************************************************)
\* longest OPS24X_PARAMETERS mapping in a configuration
MaxParams == 2
\* largest CURSOR_BUFFER_SIZE a configuration file gives
MaxBufferSize == 2
\* most lines the listen loop reads in one run
MaxReads == 3
\* last tick of the wall clock
MaxClock == 3
\* largest MAX_TIME a configuration file gives
MaxMaxTime == 1
\* most commits in a run of the store operations
MaxCommits == 2

(***************************************************************************)
(* Program constants.                                                      *)
(***************************************************************************)
\* config["CURSOR_BUFFER_SIZE"] = 10 when the key is absent
DefaultCursorBufferSize == 10
\* serial.Serial(timeout=1): a read blocks for at most this long
ReadTimeout == 1
\* cursor_buffer = 0 at the start of listen
InitialCursorBuffer == 0
\* the positional arguments _send_ops24x_cmd accepts besides self
SendCmdArity == 1
\* the positional arguments __exit__ accepts besides self
ExitArity == 0

DefaultPort == "/dev/ttyACM0"

\* the two-character configuration queries (a Python set: no order)
OPS24X_CONFIG_QUERIES ==
    {"??", "?N", "?D", "?V", "?B", "R?", "?F", "F?", "U?", "?Z"}

(***************************************************************************)
(* Python string operations on sequences of characters.                    *)
(***************************************************************************)
Digits == {"0", "1", "2", "3", "4", "5", "6", "7", "8", "9"}

Whitespace == {" ", "\t", "\r", "\n"}

DigitVal(c) ==
    CASE c = "0" -> 0 [] c = "1" -> 1 [] c = "2" -> 2 [] c = "3" -> 3
      [] c = "4" -> 4 [] c = "5" -> 5 [] c = "6" -> 6 [] c = "7" -> 7
      [] c = "8" -> 8 [] c = "9" -> 9

\* s.find(c): the 0-based index of the first c in s, or -1
Find(s, c) ==
    IF \E i \in 1..Len(s) : s[i] = c
    THEN (CHOOSE i \in 1..Len(s) : s[i] = c /\ \A j \in 1..(i - 1) : s[j] # c) - 1
    ELSE -1

\* c in s
Contains(s, c) == \E i \in 1..Len(s) : s[i] = c

\* s[:-n]
DropLast(s, n) == SubSeq(s, 1, Len(s) - n)

\* s[a:-n] for a >= 0
Slice(s, a, n) == SubSeq(s, a + 1, Len(s) - n)

\* s.replace(c, '')
RECURSIVE Remove(_, _)
Remove(s, c) ==
    IF s = << >> THEN << >>
    ELSE IF Head(s) = c THEN Remove(Tail(s), c)
    ELSE <<Head(s)>> \o Remove(Tail(s), c)

\* s.split(c): always at least one field; "".split(c) is [""]
RECURSIVE Split(_, _)
Split(s, c) ==
    LET i == Find(s, c) IN
    IF i = -1 THEN <<s>>
    ELSE <<SubSeq(s, 1, i)>> \o Split(SubSeq(s, i + 2, Len(s)), c)

\* s.strip(): float() ignores leading and trailing whitespace
RECURSIVE Strip(_)
Strip(s) ==
    IF s = << >> THEN s
    ELSE IF Head(s) \in Whitespace THEN Strip(Tail(s))
    ELSE IF s[Len(s)] \in Whitespace THEN Strip(DropLast(s, 1))
    ELSE s

RECURSIVE DigitsToNat(_)
DigitsToNat(s) ==
    IF s = << >> THEN 0
    ELSE 10 * DigitsToNat(DropLast(s, 1)) + DigitVal(s[Len(s)])

AllDigits(s) == \A i \in 1..Len(s) : s[i] \in Digits

\* a decimal value num / 10^scale with no trailing zero in the fraction
RECURSIVE Normalise(_, _)
Normalise(num, scale) ==
    IF scale > 0 /\ num % 10 = 0 THEN Normalise(num \div 10, scale - 1)
    ELSE [num |-> num, scale |-> scale]

(***************************************************************************)
(* float(s) on unsigned decimal literals: digits, digits '.' [digits] or   *)
(* '.' digits, whitespace around them ignored.  Anything else in the       *)
(* model's alphabet raises ValueError (ok = FALSE).                        *)
(***************************************************************************)
Float(s) ==
    LET t == Strip(s)
        parts == Split(t, ".")
        whole == parts[1]
        frac == IF Len(parts) = 2 THEN parts[2] ELSE << >>
        wellFormed ==
            /\ Len(parts) \in {1, 2}
            /\ AllDigits(whole) /\ AllDigits(frac)
            /\ Len(whole) + Len(frac) > 0
    IN IF wellFormed
       THEN [ok |-> TRUE, val |-> Normalise(DigitsToNat(whole \o frac), Len(frac))]
       ELSE [ok |-> FALSE, val |-> Normalise(0, 0)]

\* the float 12.5 is Dec(125, 1)
Dec(num, scale) == Normalise(num, scale)

(***************************************************************************)
(* The configuration: a mapping from keys to values, as json.load gives it *)
(* and __init__ completes it.  OPS24X_PARAMETERS is kept as the sequence   *)
(* of its values in mapping iteration order, which is all the code reads.  *)
(***************************************************************************)
Commands == {"OJ", "US"}

ParamSeqs == UNION {[1..n -> Commands] : n \in 0..MaxParams}

NoKey == [k \in {} |-> 0]

RawConfigs ==
    {(("OPS24X_PARAMETERS" :> ps) @@ port) @@ (size @@ maxt) :
        ps \in ParamSeqs,
        port \in {NoKey, "PORT" :> "/dev/ttyUSB0"},
        size \in {NoKey} \cup {"CURSOR_BUFFER_SIZE" :> n : n \in 1..MaxBufferSize},
        maxt \in {NoKey} \cup {"MAX_TIME" :> t : t \in 0..MaxMaxTime}}

\* listen reads CURSOR_BUFFER_SIZE and MAX_TIME only: the configurations it
\* is run under leave OPS24X_PARAMETERS empty
ListenRawConfigs == {raw \in RawConfigs : raw["OPS24X_PARAMETERS"] = << >>}

\* SqliteLogger.__init__: the defaults it forces into the configuration
init(raw) ==
    LET withPort ==
            IF "PORT" \in DOMAIN raw THEN raw
            ELSE raw @@ ("PORT" :> DefaultPort)
    IN IF "CURSOR_BUFFER_SIZE" \in DOMAIN withPort THEN withPort
       ELSE withPort @@ ("CURSOR_BUFFER_SIZE" :> DefaultCursorBufferSize)

(***************************************************************************)
(* Lines the device puts on the serial link.                               *)
(***************************************************************************)
\* "12.5,34.2\r\n": a measurement frame
LineMeasurement == <<"1", "2", ".", "5", ",", "3", "4", ".", "2", "\r", "\n">>
\* "1.5,2\r\n": another measurement frame
LineMeasurement2 == <<"1", ".", "5", ",", "2", "\r", "\n">>
\* "": readline() when the read timeout elapses with no data
LineEmpty == << >>
\* "12.5\r\n": a timestamp alone
LineTimeOnly == <<"1", "2", ".", "5", "\r", "\n">>
\* "not-a-number\r\n"
LineNotANumber ==
    <<"n", "o", "t", "-", "a", "-", "n", "u", "m", "b", "e", "r", "\r", "\n">>
\* "1,2,3\r\n": three fields
LineThreeFields == <<"1", ",", "2", ",", "3", "\r", "\n">>
\* '{"A":"1"}\r\n': a configuration frame of one pair
LineConfigA == <<"{", "\"", "A", "\"", ":", "\"", "1", "\"", "}", "\r", "\n">>
\* '{"B":"2","C":"3"}\r\n': a configuration frame of two pairs
LineConfigBC ==
    <<"{", "\"", "B", "\"", ":", "\"", "2", "\"", ",",
      "\"", "C", "\"", ":", "\"", "3", "\"", "}", "\r", "\n">>
\* '{"B":"2"}\r\n': a configuration frame of one pair
LineConfigB == <<"{", "\"", "B", "\"", ":", "\"", "2", "\"", "}", "\r", "\n">>
\* '{"A":"1"}{"B":"2"}\r\n': two brace blocks on one line
LineConfigAB ==
    <<"{", "\"", "A", "\"", ":", "\"", "1", "\"", "}",
      "{", "\"", "B", "\"", ":", "\"", "2", "\"", "}", "\r", "\n">>
\* '{"A":"1"}{"B":"2"}': two brace blocks and no line terminator
LineConfigABBare ==
    <<"{", "\"", "A", "\"", ":", "\"", "1", "\"", "}",
      "{", "\"", "B", "\"", ":", "\"", "2", "\"", "}">>
\* "OK\r\n": a reply that is no configuration frame
LineOk == <<"O", "K", "\r", "\n">>

\* what readline() may return in the listen phase
ListenLines ==
    {LineMeasurement, LineMeasurement2, LineEmpty, LineTimeOnly,
     LineNotANumber, LineThreeFields}

\* what readlines() may return after a command
Responses ==
    {<< >>, <<LineConfigA>>, <<LineOk>>, <<LineOk, LineConfigBC>>,
     <<LineConfigA, LineConfigB>>, <<LineConfigAB>>, <<LineConfigABBare>>}

\* "OPS24X_STARTTIME"
OPS24X_STARTTIME ==
    <<"O", "P", "S", "2", "4", "X", "_", "S", "T", "A", "R", "T", "T", "I", "M", "E">>

(***************************************************************************)
(* The state.                                                              *)
(***************************************************************************)
VARIABLES
    config,         \* self.config after __init__
    pc,             \* where the program is
    exc,            \* the last exception raised, "none" when none was
    port_open,      \* self.serial_port is open
    db_open,        \* self.db_conn (and its cursor) is open
    db,             \* the committed rows of each table
    txn,            \* the rows staged by execute() and not yet committed
    commits,        \* how many times db_conn.commit() has run
    sent,           \* the commands written to the serial port, in order
    response,       \* what the last _send_ops24x_cmd returned
    data_rx,        \* the lines readlines() gave the last _send_ops24x_cmd
    param_idx,      \* the position of the __enter__ loop over OPS24X_PARAMETERS
    cursor_buffer,  \* listen's cursor_buffer
    clock,          \* time.time()
    start_time,     \* listen's start_time
    rx,             \* the lines readline() has returned to listen, in order
    meas_tup        \* listen's meas_tup: what _read_measurement returned last

vars ==
    <<config, pc, exc, port_open, db_open, db, txn, commits, sent, response,
      data_rx, param_idx, cursor_buffer, clock, start_time, rx, meas_tup>>

\* Python's None as a measurement, and a tuple of floats
None == [none |-> TRUE, tup |-> << >>]

Tuple(t) == [none |-> FALSE, tup |-> t]

EmptyTables == [metadata |-> {}, speed_samples |-> {}]

(***************************************************************************)
(* The store: sqlite3 with the two tables of the schema.  A row is the     *)
(* tuple of its two columns; the first column is the primary key.          *)
(***************************************************************************)
\* execute_insert on tables declared without PRIMARY KEY: any two-column row
\* is taken
execute_insert_no_key(table, params) ==
    IF Len(params) # 2 THEN "ProgrammingError" ELSE "none"

\* cursor.execute("INSERT INTO <table> VALUES(?, ?)", params): the exception
\* it raises, or "none".  Two placeholders need two bindings; the primary key
\* must be new among the rows the connection sees.
execute_insert(table, params) ==
    IF Len(params) # 2 THEN "ProgrammingError"
    ELSE IF \E r \in db[table] \cup txn[table] : r[1] = params[1]
    THEN "IntegrityError"
    ELSE "none"

\* the staged rows after a successful execute_insert
staged(table, params) == [txn EXCEPT ![table] = @ \cup {params}]

\* db_conn.commit() of the staged rows t
committed(t) == [k \in DOMAIN db |-> db[k] \cup t[k]]

(***************************************************************************)
(* _send_ops24x_cmd: the decoding of the lines readlines() returned.       *)
(***************************************************************************)
\* for entry in sample_str.split(","): out_list.append(tuple(entry.split(":")))
RECURSIVE decode_entries(_)
decode_entries(entries) ==
    IF entries = << >> THEN << >>
    ELSE <<Split(Head(entries), ":")>> \o decode_entries(Tail(entries))

\* decode_line without the test for "{": every line is taken for a frame
decode_line_unguarded(sample_str) ==
    decode_entries(Split(Remove(Slice(sample_str, 1, 3), "\""), ","))

\* one line of the response: its (key, value) tuples, none without a "{"
decode_line(sample_str) ==
    IF Contains(sample_str, "{")
    THEN decode_entries(Split(Remove(Slice(sample_str, 1, 3), "\""), ","))
    ELSE << >>

\* out_list of _send_ops24x_cmd for the lines data_rx_list
RECURSIVE decode_lines(_)
decode_lines(data_rx_list) ==
    IF data_rx_list = << >> THEN << >>
    ELSE decode_line(Head(data_rx_list)) \o decode_lines(Tail(data_rx_list))

\* a call of _send_ops24x_cmd with nargs positional arguments binds only when
\* nargs is what the signature takes; otherwise Python raises TypeError
call_binds(nargs) == nargs = SendCmdArity

\* propagate with the exception swallowed: the caller carries on
propagate_swallowed(ok, next) == next

\* where control goes after an operation that may raise: nothing in __enter__,
\* _send_ops24x_cmd or __main__ catches, so an exception ends the program
propagate(ok, next) == IF ok THEN next ELSE "crashed"

(***************************************************************************)
(* The program: __main__ constructs the logger and enters it.              *)
(***************************************************************************)
\* after SqliteLogger(config_dict), before __enter__
Init ==
    /\ config \in {init(raw) : raw \in RawConfigs}
    /\ pc = "enter"
    /\ exc = "none"
    /\ port_open = FALSE
    /\ db_open = FALSE
    /\ db = EmptyTables
    /\ txn = EmptyTables
    /\ commits = 0
    /\ sent = << >>
    /\ response = << >>
    /\ data_rx = << >>
    /\ param_idx = 1
    /\ cursor_buffer = InitialCursorBuffer
    /\ clock = 0
    /\ start_time = 0
    /\ rx = << >>
    /\ meas_tup = None

OPS24X_PARAMETERS == config["OPS24X_PARAMETERS"]

\* the first command of __enter__ after the tables are built
after_tables == IF Len(OPS24X_PARAMETERS) = 0 THEN "time_reporting" ELSE "params"

\* _send_ops24x_cmd(ops24x_command): the write succeeds (wok) or times out;
\* data_rx_list is what readlines() returns; then control goes to next
send_ops24x_cmd(ops24x_command, wok, data_rx_list, next) ==
    /\ sent' = IF wok THEN Append(sent, ops24x_command) ELSE sent
    /\ data_rx' = IF wok THEN data_rx_list ELSE data_rx
    /\ response' = IF wok THEN decode_lines(data_rx_list) ELSE response
    /\ exc' = IF wok THEN exc ELSE "SerialTimeoutException"
    /\ pc' = propagate(wok, next)

\* the list a command returned is inserted into metadata
insert_returned(out_list) ==
    [txn EXCEPT !.metadata = @ \cup {out_list[i] : i \in 1..Len(out_list)}]

\* __enter__ calls _send_ops24x_cmd(v), ("OT") and ("BT") as statements: the
\* list each returns is dropped and the pending rows stay what they were
drop_returned(out_list) == txn

\* __enter__: serial.Serial(...), serial_port.open(), the two flushes
OpenPort ==
    /\ pc = "enter"
    /\ \E ok \in BOOLEAN :
        /\ port_open' = ok
        /\ exc' = IF ok THEN exc ELSE "SerialException"
        /\ pc' = propagate(ok, "connect_db")
    /\ UNCHANGED <<config, db_open, db, txn, commits, sent, response, data_rx,
                   param_idx, cursor_buffer, clock, start_time, rx, meas_tup>>

\* __enter__: sqlite3.connect, cursor(), _build_tables (two CREATE TABLE and
\* a commit).  The file is named by the second: when it is not fresh the
\* tables exist and CREATE TABLE raises OperationalError.
ConnectDb ==
    /\ pc = "connect_db"
    /\ \E fresh \in BOOLEAN :
        /\ db_open' = TRUE
        /\ commits' = IF fresh THEN commits + 1 ELSE commits
        /\ db' = IF fresh THEN committed(txn) ELSE db
        /\ exc' = IF fresh THEN exc ELSE "OperationalError"
        /\ pc' = propagate(fresh, after_tables)
    /\ UNCHANGED <<config, port_open, txn, sent, response, data_rx, param_idx,
                   cursor_buffer, clock, start_time, rx, meas_tup>>

\* __enter__: one turn of  for v in config["OPS24X_PARAMETERS"].values()
ApplyParameter ==
    /\ pc = "params"
    /\ \E wok \in BOOLEAN, data_rx_list \in Responses :
        /\ send_ops24x_cmd(OPS24X_PARAMETERS[param_idx], wok, data_rx_list,
                           IF param_idx = Len(OPS24X_PARAMETERS)
                           THEN "time_reporting" ELSE "params")
        /\ param_idx' = IF wok THEN param_idx + 1 ELSE param_idx
    /\ txn' = drop_returned(response')
    /\ UNCHANGED <<config, port_open, db_open, db, commits,
                   cursor_buffer, clock, start_time, rx, meas_tup>>

\* __enter__: force time reporting
ForceTimeReporting ==
    /\ pc = "time_reporting"
    /\ \E wok \in BOOLEAN, data_rx_list \in Responses :
        send_ops24x_cmd("OT", wok, data_rx_list, "blanking")
    /\ txn' = drop_returned(response')
    /\ UNCHANGED <<config, port_open, db_open, db, commits, param_idx,
                   cursor_buffer, clock, start_time, rx, meas_tup>>

\* __enter__: handle out-of-range sampling
ForceBlanking ==
    /\ pc = "blanking"
    /\ \E wok \in BOOLEAN, data_rx_list \in Responses :
        send_ops24x_cmd("BT", wok, data_rx_list, "sync_time")
    /\ txn' = drop_returned(response')
    /\ UNCHANGED <<config, port_open, db_open, db, commits, param_idx,
                   cursor_buffer, clock, start_time, rx, meas_tup>>

\* __enter__: self._sync_time().  _sync_time calls
\* _send_ops24x_cmd("OPS24X_RESET_RADAR_TIMER", "C=0\n"): two arguments for a
\* method that takes one, so the call raises TypeError before anything is
\* written.  The insert of OPS24X_STARTTIME, the loop over
\* OPS24X_CONFIG_QUERIES (whose calls pass two arguments too), the with body
\* (sl.listen()) and __exit__ are not reached.
SyncTime ==
    /\ pc = "sync_time"
    /\ ~call_binds(2)
    /\ exc' = "TypeError"
    /\ pc' = propagate(FALSE, "queries")
    /\ UNCHANGED <<config, port_open, db_open, db, txn, commits, sent, response,
                   data_rx, param_idx, cursor_buffer, clock, start_time, rx,
                   meas_tup>>

Next ==
    \/ OpenPort
    \/ ConnectDb
    \/ ApplyParameter
    \/ ForceTimeReporting
    \/ ForceBlanking
    \/ SyncTime

Spec == Init /\ [][Next]_vars

(***************************************************************************)
(* listen(), called on a logger whose serial port and database are open    *)
(* and whose tables are built (what __enter__ sets up before it talks to   *)
(* the device).                                                            *)
(***************************************************************************)
InitListen ==
    /\ config \in {init(raw) : raw \in ListenRawConfigs}
    /\ pc = "listen"
    /\ exc = "none"
    /\ port_open = TRUE
    /\ db_open = TRUE
    /\ db = EmptyTables
    /\ txn = EmptyTables
    /\ commits = 0
    /\ sent = << >>
    /\ response = << >>
    /\ data_rx = << >>
    /\ param_idx = 1
    /\ cursor_buffer = InitialCursorBuffer
    /\ clock \in 0..1
    /\ start_time = 0
    /\ rx = << >>
    /\ meas_tup = None

\* _read_measurement's test of the line: it parses when the line holds no ','
parses_line(ops24x_rx_str) == Find(ops24x_rx_str, ",") = -1

\* _read_measurement on the line readline() returned: the exception it
\* raises ("none" when none) and the value it returns
read_measurement(ops24x_rx_str) ==
    IF parses_line(ops24x_rx_str)
    THEN LET fields == Split(DropLast(ops24x_rx_str, 2), ",")
             floats == [i \in 1..Len(fields) |-> Float(fields[i])]
         IN IF \E i \in 1..Len(fields) : ~floats[i].ok
            THEN [raised |-> "ValueError", value |-> None]
            ELSE [raised |-> "none",
                  value |-> Tuple([i \in 1..Len(fields) |-> floats[i].val])]
    ELSE [raised |-> "none", value |-> None]

\* the wall-clock stop condition at the top of an iteration
time_up ==
    /\ "MAX_TIME" \in DOMAIN config
    /\ clock - start_time > config["MAX_TIME"]

\* next_cursor_buffer with the count taken out of the  if meas_tup:  block:
\* every line read is counted
next_cursor_buffer_dedented(inserted, full) ==
    IF full THEN 0 ELSE cursor_buffer + 1

\* cursor_buffer after the body: it is counted up only under  if meas_tup:
\* and set back to 0 when the count reaches CURSOR_BUFFER_SIZE (full)
next_cursor_buffer(inserted, full) ==
    IF ~inserted THEN cursor_buffer
    ELSE IF full THEN 0
    ELSE cursor_buffer + 1

\* the body of the loop from  meas_tup = self._read_measurement()  on, for the
\* line read: the exception that ends it ("none" when it runs through) and
\* the values it leaves.  execute raises before the logging call can.
listen_body(line) ==
    LET m == read_measurement(line)
        truthy == ~m.value.none /\ Len(m.value.tup) > 0
        ins == execute_insert("speed_samples", m.value.tup)
        n == cursor_buffer + 1
        full == n >= config["CURSOR_BUFFER_SIZE"]
        same == [raised |-> "none", meas_tup |-> meas_tup, txn |-> txn, db |-> db,
                 commits |-> commits, cursor_buffer |-> cursor_buffer]
    IN IF m.raised # "none" THEN [same EXCEPT !.raised = m.raised]
       ELSE IF ~truthy
       THEN [same EXCEPT !.meas_tup = m.value,
                         !.cursor_buffer = next_cursor_buffer(FALSE, full)]
       ELSE IF ins # "none" THEN [same EXCEPT !.meas_tup = m.value, !.raised = ins]
       ELSE [raised |-> "none",
             meas_tup |-> m.value,
             txn |-> IF full THEN EmptyTables
                     ELSE staged("speed_samples", m.value.tup),
             db |-> IF full THEN committed(staged("speed_samples", m.value.tup))
                    ELSE db,
             commits |-> IF full THEN commits + 1 ELSE commits,
             cursor_buffer |-> next_cursor_buffer(TRUE, full)]

\* listen: up to the loop
ListenStart ==
    /\ pc = "listen"
    /\ cursor_buffer' = InitialCursorBuffer
    /\ start_time' = clock
    /\ pc' = "loop"
    /\ UNCHANGED <<config, exc, port_open, db_open, db, txn, commits, sent,
                   response, data_rx, param_idx, clock, rx, meas_tup>>

\* listen: an iteration that finds MAX_TIME exceeded and breaks
ListenBreak ==
    /\ pc = "loop"
    /\ time_up
    /\ pc' = "listen_done"
    /\ UNCHANGED <<config, exc, port_open, db_open, db, txn, commits, sent,
                   response, data_rx, param_idx, cursor_buffer, clock, start_time,
                   rx, meas_tup>>

\* listen: an iteration that reads a line.  The read returns line after d
\* ticks; an empty line is the read timeout having elapsed.
ListenPoll ==
    /\ pc = "loop"
    /\ ~time_up
    /\ Len(rx) < MaxReads
    /\ \E line \in ListenLines, d \in 0..ReadTimeout :
        /\ line = LineEmpty => d = ReadTimeout
        /\ clock + d <= MaxClock
        /\ clock' = clock + d
        /\ rx' = Append(rx, line)
        /\ LET r == listen_body(line) IN
            /\ exc' = IF r.raised = "none" THEN exc ELSE r.raised
            /\ pc' = propagate(r.raised = "none", "loop")
            /\ meas_tup' = r.meas_tup
            /\ txn' = r.txn
            /\ db' = r.db
            /\ commits' = r.commits
            /\ cursor_buffer' = r.cursor_buffer
    /\ UNCHANGED <<config, port_open, db_open, sent, response, data_rx,
                   param_idx, start_time>>

\* a call of __exit__ with nargs positional arguments binds only when nargs is
\* what its signature takes
exit_binds(nargs) == nargs = ExitArity

\* listen has returned and the with statement of __main__ leaves its body: it
\* calls __exit__(exc_type, exc_value, traceback), three arguments for a
\* method that takes none, so the call raises TypeError and the three close()
\* calls of __exit__ do not run.
LeaveWith ==
    /\ pc = "listen_done"
    /\ ~exit_binds(3)
    /\ exc' = "TypeError"
    /\ pc' = propagate(FALSE, "exited")
    /\ UNCHANGED <<config, port_open, db_open, db, txn, commits, sent, response,
                   data_rx, param_idx, cursor_buffer, clock, start_time, rx,
                   meas_tup>>

NextListen ==
    \/ ListenStart
    \/ ListenBreak
    \/ ListenPoll
    \/ LeaveWith

SpecListen == InitListen /\ [][NextListen]_vars

(***************************************************************************)
(* The store operations by themselves: the two INSERT statements and       *)
(* commit() as the code issues them, on the freshly built tables, for      *)
(* rows drawn from small sets.  An exception of execute is caught nowhere  *)
(* (listen, __enter__, __main__), so it ends the program.                  *)
(***************************************************************************)
\* tuples handed to INSERT_INTO_SPEED_SAMPLES: (1.5, 2), (1.5, 34.2),
\* (12.5, 34.2), and the one-element tuple (12.5,) _read_measurement builds
SampleRows ==
    {<<Dec(15, 1), Dec(2, 0)>>, <<Dec(15, 1), Dec(342, 1)>>,
     <<Dec(125, 1), Dec(342, 1)>>, <<Dec(125, 1)>>}

\* tuples handed to INSERT_INTO_METADATA: ("A","1"), ("A","2"), ("B","2"),
\* and the three-element tuple ("A", "1}{B", "2")
MetadataRows ==
    {<<<<"A">>, <<"1">>>>, <<<<"A">>, <<"2">>>>, <<<<"B">>, <<"2">>>>,
     <<<<"A">>, <<"1", "}", "{", "B">>, <<"2">>>>}

InitStore ==
    /\ config = init("OPS24X_PARAMETERS" :> << >>)
    /\ pc = "store"
    /\ exc = "none"
    /\ port_open = TRUE
    /\ db_open = TRUE
    /\ db = EmptyTables
    /\ txn = EmptyTables
    /\ commits = 0
    /\ sent = << >>
    /\ response = << >>
    /\ data_rx = << >>
    /\ param_idx = 1
    /\ cursor_buffer = InitialCursorBuffer
    /\ clock = 0
    /\ start_time = 0
    /\ rx = << >>
    /\ meas_tup = None

\* db_cursor.execute(INSERT_INTO_SPEED_SAMPLES, meas_tup) for meas_tup = params
InsertSampleOf(params) ==
    /\ pc = "store"
    /\ LET raised == execute_insert("speed_samples", params) IN
        /\ meas_tup' = Tuple(params)
        /\ exc' = IF raised = "none" THEN exc ELSE raised
        /\ pc' = propagate(raised = "none", "store")
        /\ txn' = IF raised = "none" THEN staged("speed_samples", params) ELSE txn
    /\ UNCHANGED <<config, port_open, db_open, db, commits, sent, response,
                   data_rx, param_idx, cursor_buffer, clock, start_time, rx>>

InsertSample == \E params \in SampleRows : InsertSampleOf(params)

\* db_cursor.execute(INSERT_INTO_METADATA, tuple(item)) for item = params
InsertMetadataOf(params) ==
    /\ pc = "store"
    /\ LET raised == execute_insert("metadata", params) IN
        /\ response' = <<params>>
        /\ exc' = IF raised = "none" THEN exc ELSE raised
        /\ pc' = propagate(raised = "none", "store")
        /\ txn' = IF raised = "none" THEN staged("metadata", params) ELSE txn
    /\ UNCHANGED <<config, port_open, db_open, db, commits, sent, data_rx,
                   param_idx, cursor_buffer, clock, start_time, rx, meas_tup>>

InsertMetadata == \E params \in MetadataRows : InsertMetadataOf(params)

\* db_conn.commit()
Commit ==
    /\ pc = "store"
    /\ commits < MaxCommits
    /\ db' = committed(txn)
    /\ txn' = EmptyTables
    /\ commits' = commits + 1
    /\ UNCHANGED <<config, pc, exc, port_open, db_open, sent, response, data_rx,
                   param_idx, cursor_buffer, clock, start_time, rx, meas_tup>>

NextStore ==
    \/ InsertSample
    \/ InsertMetadata
    \/ Commit

SpecStore == InitStore /\ [][NextStore]_vars

(***************************************************************************)
(* Both phases side by side: the program from its start, and listen() on   *)
(* an opened logger.                                                       *)
(***************************************************************************)
InitAll == Init \/ InitListen

NextAll == Next \/ NextListen

SpecAll == InitAll /\ [][NextAll]_vars

(***************************************************************************)
(* What the properties below speak of.                                     *)
(***************************************************************************)
\* a port, write or store failure: the exceptions the environment causes
EnvFaults == {"SerialException", "SerialTimeoutException", "OperationalError"}

\* a port open failure or a write timeout
TransportFaults == {"SerialException", "SerialTimeoutException"}

\* the program has ended
Terminated == pc \in {"crashed", "exited"}

\* the reset-radar-timer command
ResetRadarTimer == "C=0\n"

\* a full handshake: the parameters, OT, BT, the reset, the ten queries
FullHandshake(s) ==
    LET np == Len(OPS24X_PARAMETERS) IN
    /\ Len(s) = np + 3 + Cardinality(OPS24X_CONFIG_QUERIES)
    /\ SubSeq(s, 1, np) = OPS24X_PARAMETERS
    /\ s[np + 1] = "OT"
    /\ s[np + 2] = "BT"
    /\ s[np + 3] = ResetRadarTimer
    /\ {s[i] : i \in (np + 4)..Len(s)} = OPS24X_CONFIG_QUERIES

\* the phases are sent in order: what was sent so far is the parameters up to
\* some point, then OT, then BT
OrderedPrefix(s) ==
    LET np == Len(OPS24X_PARAMETERS) IN
    /\ \A i \in 1..Len(s) : i <= np => s[i] = OPS24X_PARAMETERS[i]
    /\ Len(s) > np => s[np + 1] = "OT"
    /\ Len(s) > np + 1 => s[np + 2] = "BT"

\* "<time>,<speed>\r\n" with two decimal fields
IsMeasurementFrame(line) ==
    /\ Len(line) >= 2
    /\ SubSeq(line, Len(line) - 1, Len(line)) = <<"\r", "\n">>
    /\ LET f == Split(DropLast(line, 2), ",") IN
        /\ Len(f) = 2
        /\ Float(f[1]).ok
        /\ Float(f[2]).ok

\* the (time, speed) pair of a measurement frame
Measurement(line) ==
    LET f == Split(DropLast(line, 2), ",") IN <<Float(f[1]).val, Float(f[2]).val>>

\* how many of the lines are measurement frames
RECURSIVE CountFrames(_)
CountFrames(lines) ==
    IF lines = << >> THEN 0
    ELSE (IF IsMeasurementFrame(Head(lines)) THEN 1 ELSE 0) + CountFrames(Tail(lines))

\* the measurement frames among the lines carry different times
DistinctTimes(lines) ==
    \A i, j \in 1..Len(lines) :
        (i # j /\ IsMeasurementFrame(lines[i]) /\ IsMeasurementFrame(lines[j]))
            => Measurement(lines[i])[1] # Measurement(lines[j])[1]

\* this step of listen read the line
Reads(line) == Len(rx') = Len(rx) + 1 /\ rx'[Len(rx')] = line

\* the step left the store and the commit buffer alone and the loop goes on
ContinuesUntouched ==
    /\ pc' = "loop"
    /\ exc' = exc
    /\ db' = db
    /\ txn' = txn
    /\ cursor_buffer' = cursor_buffer

(***************************************************************************)
(* C1: in the listen loop with CURSOR_BUFFER_SIZE = N, after k             *)
(* measurements (of different times) have come in, commit has run          *)
(* floor(k/N) times and k mod N samples are pending.                       *)
(* Violated: a measurement frame holds a ',', so _read_measurement returns *)
(* None for it and nothing is counted.                                     *)
(***************************************************************************)
C1_CommitEveryN ==
    (pc \in {"loop", "listen_done"} /\ DistinctTimes(rx)) =>
        LET k == CountFrames(rx)
            N == config["CURSOR_BUFFER_SIZE"]
        IN /\ commits = k \div N
           /\ cursor_buffer = k % N
           /\ Cardinality(txn.speed_samples) = k % N

(***************************************************************************)
(* C2: in every state of the listen loop cursor_buffer is the number of    *)
(* samples inserted since the last commit and lies in                      *)
(* 0..CURSOR_BUFFER_SIZE - 1, and every commit leaves it 0.                *)
(***************************************************************************)
C2_BufferInvariant ==
    /\ [](pc \in {"loop", "listen_done", "crashed"} =>
            /\ cursor_buffer = Cardinality(txn.speed_samples)
            /\ cursor_buffer \in 0..(config["CURSOR_BUFFER_SIZE"] - 1))
    /\ [][(commits' # commits) => (cursor_buffer' = 0)]_vars

\* the loop has read lines, a measurement frame among them, and has ended
C2_Witness ==
    /\ pc = "listen_done"
    /\ \E i \in 1..Len(rx) : IsMeasurementFrame(rx[i])

(***************************************************************************)
(* C3: the handshake sends the parameters, then OT and BT, then the reset  *)
(* of the radar timer, then the ten configuration queries, in that order.  *)
(* Violated: _sync_time's call raises TypeError, so a handshake with no    *)
(* transport or store failure ends after BT.                               *)
(***************************************************************************)
C3_HandshakeOrder ==
    /\ OrderedPrefix(sent)
    /\ (Terminated /\ exc \notin EnvFaults) => FullHandshake(sent)

(***************************************************************************)
(* C4: with the port open and no write or store failure the program gets   *)
(* through the handshake: it does not end before Ready.                    *)
(***************************************************************************)
C4_ReachesReady == pc = "crashed" => exc \in EnvFaults

(***************************************************************************)
(* C5: after startup the store holds eleven committed metadata rows, the   *)
(* OPS24X_STARTTIME row among them, and no speed sample.                   *)
(***************************************************************************)
C5_ElevenRows ==
    (pc \notin {"enter", "connect_db", "params", "time_reporting", "blanking",
                "sync_time", "queries"}
     /\ exc \notin EnvFaults) =>
        /\ Cardinality(db.metadata) = 11
        /\ \E r \in db.metadata : r[1] = OPS24X_STARTTIME
        /\ db.speed_samples = {}
        /\ txn.speed_samples = {}

(***************************************************************************)
(* C6: once opening the port has failed or a write has timed out the       *)
(* program is in its terminal failure state: no further command is sent,   *)
(* and no speed sample is ever inserted.                                   *)
(***************************************************************************)
C6_FaultIsTerminal ==
    /\ [](exc \in TransportFaults =>
            /\ pc = "crashed"
            /\ db.speed_samples = {}
            /\ txn.speed_samples = {})
    /\ [][(exc \in TransportFaults) => (sent' = sent /\ pc' = pc /\ rx' = rx)]_vars

\* a write timed out after commands had been sent
C6_Witness ==
    /\ exc = "SerialTimeoutException"
    /\ pc = "crashed"
    /\ Len(sent) >= 2

(***************************************************************************)
(* C7: when the program has ended, the serial port and the database        *)
(* connection it had opened are closed.                                    *)
(***************************************************************************)
C7_ReleasedAtExit == Terminated => (~port_open /\ ~db_open)

(***************************************************************************)
(* C8: an iteration of listen whose read timed out (an empty line) ends    *)
(* without an error, the store and the commit buffer unchanged.            *)
(***************************************************************************)
C8_TimeoutContinues == [][Reads(LineEmpty) => ContinuesUntouched]_vars

(***************************************************************************)
(* C9: for a line "<time>,<speed>\r\n" the decoder returns the pair of     *)
(* floats (time, speed), and the loop inserts that pair.                   *)
(***************************************************************************)
C9_MeasurementDecoded ==
    [][\A line \in ListenLines :
        (/\ Reads(line)
         /\ IsMeasurementFrame(line)
         /\ \A r \in db.speed_samples \cup txn.speed_samples :
                r[1] # Measurement(line)[1])
        => /\ meas_tup' = Tuple(Measurement(line))
           /\ Measurement(line) \in db'.speed_samples \cup txn'.speed_samples]_vars

(***************************************************************************)
(* C10: a malformed line (not empty, not a measurement frame) is dropped:  *)
(* no exception, no sample, the commit buffer unchanged, the loop goes on. *)
(***************************************************************************)
C10_MalformedDiscarded ==
    [][\A line \in ListenLines :
        (Reads(line) /\ line # LineEmpty /\ ~IsMeasurementFrame(line))
        => ContinuesUntouched]_vars

\* the tuples ("A", "1"), ("B", "2"), ("C", "3")
PairA1 == <<<<"A">>, <<"1">>>>

PairB2 == <<<<"B">>, <<"2">>>>

PairC3 == <<<<"C">>, <<"3">>>>

GracefulEnd == pc = "listen_done" \/ (pc = "crashed" /\ exc = "TypeError")

(***************************************************************************)
(* C12: with MAX_TIME configured, an iteration that starts after MAX_TIME  *)
(* has elapsed ends the loop cleanly, and until then the loop goes on,     *)
(* whether the reads return measurement lines or time out.                 *)
(* Violated: a read that times out returns "", float("") raises            *)
(* ValueError and the loop ends with the exception.                        *)
(***************************************************************************)
C12_StopsOnMaxTime ==
    [][(/\ pc = "loop"
        /\ "MAX_TIME" \in DOMAIN config
        /\ \/ rx' = rx
           \/ Reads(LineEmpty)
           \/ \E line \in ListenLines : IsMeasurementFrame(line) /\ Reads(line))
       => pc' = IF clock - start_time > config["MAX_TIME"]
                THEN "listen_done" ELSE "loop"]_vars

(***************************************************************************)
(* C13: when the loop has ended on MAX_TIME, nothing is left staged and    *)
(* every measurement that came in during the listen phase is durable.      *)
(***************************************************************************)
C13_FinalCommit ==
    GracefulEnd =>
        /\ txn.speed_samples = {}
        /\ \A i \in 1..Len(rx) :
            IsMeasurementFrame(rx[i]) =>
                \E r \in db.speed_samples : r[1] = Measurement(rx[i])[1]

\* the rows of the table that the connection sees
Visible(table) == db[table] \cup txn[table]

\* no two rows of the table share their first column
UniqueKey(table) ==
    \A r1, r2 \in Visible(table) : r1[1] = r2[1] => r1 = r2

\* the step raised IntegrityError, ended the program and left every row alone
RejectedAsDuplicate ==
    /\ exc' = "IntegrityError"
    /\ pc' = "crashed"
    /\ db' = db
    /\ txn' = txn

(***************************************************************************)
(* C14: inserting a speed sample whose time a stored sample already has    *)
(* raises an error that reaches the caller, and speed_samples never holds  *)
(* two rows of one time.                                                   *)
(***************************************************************************)
C14_SampleTimeUnique ==
    /\ []UniqueKey("speed_samples")
    /\ [][\A params \in SampleRows :
            (/\ InsertSampleOf(params)
             /\ Len(params) = 2
             /\ \E r \in Visible("speed_samples") : r[1] = params[1])
            => RejectedAsDuplicate]_vars

\* a second sample of a stored time was refused
C14_Witness ==
    /\ exc = "IntegrityError"
    /\ ~meas_tup.none
    /\ \E r \in Visible("speed_samples") : r[1] = meas_tup.tup[1]

(***************************************************************************)
(* C15: inserting a metadata record whose parameter is already stored      *)
(* raises an error; the first record stays stored, the second is not, and  *)
(* metadata never holds two rows of one parameter.                         *)
(***************************************************************************)
C15_ParameterUnique ==
    /\ []UniqueKey("metadata")
    /\ [][\A params \in MetadataRows :
            (/\ InsertMetadataOf(params)
             /\ Len(params) = 2
             /\ \E r \in Visible("metadata") : r[1] = params[1])
            => (/\ RejectedAsDuplicate
                /\ \E r \in Visible("metadata")' : r[1] = params[1])]_vars

\* a second record of a committed parameter was refused, the first still there
C15_Witness ==
    /\ exc = "IntegrityError"
    /\ Len(response) = 1
    /\ \E r \in db.metadata : r[1] = response[1][1] /\ r # response[1]

(***************************************************************************)
(* C16: after an insert has violated a uniqueness constraint the valid     *)
(* records staged before it still become durable.                          *)
(* Violated: IntegrityError is caught nowhere; the program ends with the   *)
(* staged rows uncommitted and attempts no further record.                 *)
(***************************************************************************)
C16_BatchSurvivesDuplicate ==
    (pc = "crashed" /\ exc = "IntegrityError") =>
        /\ txn.speed_samples \subseteq db.speed_samples
        /\ txn.metadata \subseteq db.metadata

\* the program is past __enter__ without a fault of its environment
PastHandshake == Terminated /\ exc \notin EnvFaults

(***************************************************************************)
(* C17: configuration collection commits once per query code: after the    *)
(* handshake every query code has been sent and the store has been         *)
(* committed once for the tables, once for the start time and once for     *)
(* each of the ten codes.                                                  *)
(* Violated: the handshake ends in _sync_time, before the first query.     *)
(***************************************************************************)
C17_CommitPerQuery ==
    PastHandshake =>
        /\ \A k \in OPS24X_CONFIG_QUERIES : \E i \in 1..Len(sent) : sent[i] = k
        /\ commits = 1 + 1 + Cardinality(OPS24X_CONFIG_QUERIES)

(***************************************************************************)
(* C18: the OPS24X_STARTTIME record is written and committed right after   *)
(* the reset command was sent, exactly once, never without the reset, and  *)
(* without touching the listen loop's counter.                             *)
(* Violated: _sync_time raises before it sends the reset command, so the   *)
(* record is never written.                                                *)
(***************************************************************************)
C18_StartTimeOnce ==
    /\ (\E r \in Visible("metadata") : r[1] = OPS24X_STARTTIME)
        => \E i \in 1..Len(sent) : sent[i] = ResetRadarTimer
    /\ PastHandshake =>
        /\ \E i \in 1..Len(sent) : sent[i] = ResetRadarTimer
        /\ Cardinality({r \in db.metadata : r[1] = OPS24X_STARTTIME}) = 1
        /\ cursor_buffer = InitialCursorBuffer

\* where control is while __enter__ runs, and while listen runs
HandshakePcs ==
    {"enter", "connect_db", "params", "time_reporting", "blanking", "sync_time"}

ListenPcs == {"listen", "loop", "listen_done"}

\* the step adds no row to the table
InsertsNone(table) == Visible(table)' \subseteq Visible(table)

(***************************************************************************)
(* C19: no step of the handshake inserts a speed sample, no step of the    *)
(* listen loop inserts a metadata row, and the parameter and reporting     *)
(* commands insert nothing, whatever the device answers.                   *)
(***************************************************************************)
C19_PhaseSeparation ==
    [][/\ pc \in HandshakePcs => InsertsNone("speed_samples")
       /\ pc \in ListenPcs => InsertsNone("metadata")
       /\ pc \in {"params", "time_reporting", "blanking"} =>
            InsertsNone("metadata")]_vars

\* a parameter or reporting command was answered with configuration output,
\* which was decoded and not stored
C19_Witness ==
    /\ pc \in {"params", "time_reporting", "blanking", "sync_time"}
    /\ Len(sent) >= 1
    /\ Len(response) >= 1
    /\ Visible("metadata") = {}

====
